---- MODULE Spec2Model ----
(***************************************************************************)
(* The RepositoryPermission controller of provider-upbound:                *)
(* connector.Connect and the external client's Observe, Create, Update and *)
(* Delete (internal/controller/repositorypermission/controller.go), run    *)
(* against a remote store of permission grants keyed by                    *)
(* (organization, repository, team).                                       *)
(*                                                                         *)
(* Spec        the four methods and Connect called in any order on any     *)
(*             record, interleaved with user edits (the most general       *)
(*             caller).                                                    *)
(* EngineSpec  the same methods driven by the managed reconciler that      *)
(*             Setup registers: Connect, Observe, then Create, Update,     *)
(*             Delete or nothing, one cycle at a time per record.          *)
(***************************************************************************)
EXTENDS Integers, FiniteSets, Sequences, TLC

VARIABLES
    spec,          \* record -> cr.Spec.ForProvider
    externalName,  \* record -> the external-name annotation, or Unset
    conditions,    \* record -> the reasons of the conditions of cr.Status
    phase,         \* record -> "live", "deleting" (deletion requested), "purged"
    userChanged,   \* record -> the user edited the spec after the last binding
    remote,        \* structural key -> permission of the grant, or Absent
    usage,         \* the managed objects with a ProviderConfigUsage
    cred,          \* the generation of the credential of the ProviderConfig
    clients,       \* the credentials of the ExternalClients Connect returned
    client,        \* record -> credential of the ExternalClient of its cycle
    pc,            \* record -> position of the reconciler in its cycle
    last,          \* the last call made: method, object, remote call, result
    edits          \* number of changes the user has made

vars == <<spec, externalName, conditions, phase, userChanged, remote, usage,
          cred, clients, client, pc, last, edits>>

-----------------------------------------------------------------------------
(* Bounds *)

\* The number of changes the user makes to the specs of the records and to
\* the credential of the ProviderConfig.
MaxEdits == 1

-----------------------------------------------------------------------------
(* Domains *)

Records == {"r1", "r2"}

\* A managed resource that is not a *v1alpha1.Permission.
Foreign == "other"

Managed == Records \cup {Foreign}

Nil == "<nil>"

Unset == "<unset>"

Absent == "<absent>"

\* No ExternalClient: the nil that Connect returns with an error.
NoClient == -1

Orgs == {"acme"}

RepositoryPtrs == {Nil, "infra"}

TeamIDPtrs == {"sre", "dev"}

Permissions == {"admin", "read"}

ForProvider ==
    [OrganizationName : Orgs, Repository : RepositoryPtrs,
     TeamID : TeamIDPtrs, Permission : Permissions]

-----------------------------------------------------------------------------
(* Errors *)

\* The error of a call to a collaborator: "nil", "NotFound" or "Other".
\* A returned error is a record: the message of the call site and its cause.
NoErr == [msg |-> "", cause |-> "nil"]

errNotPermission == "managed resource is not a RepositoryPermission custom resource"

errTrackPCUsage == "cannot track ProviderConfig usage"

errNewClient == "cannot create new client"

\* errors.New
New(msg) == [msg |-> msg, cause |-> "new"]

\* errors.Wrap: nil stays nil, anything else is annotated with the message.
Wrap(err, msg) == IF err = "nil" THEN NoErr ELSE [msg |-> msg, cause |-> err]

\* uperrors.IsNotFound
IsNotFound(err) == err = "NotFound"

\* resource.Ignore(is, err): nil when is(err) holds, err otherwise; the first
\* argument here is is(err).
Ignore(is, err) == IF is THEN "nil" ELSE err

-----------------------------------------------------------------------------
(* Parameters built from the record *)

\* pointer.StringDeref
StringDeref(ptr, def) == IF ptr = Nil THEN def ELSE ptr

GetParameters(fp) ==
    [Repository   |-> StringDeref(fp.Repository, ""),
     Organization |-> fp.OrganizationName,
     TeamID       |-> StringDeref(fp.TeamID, "")]

\* Mutant: the repository and the team are swapped in the request.
CreateParameters_Swapped(fp) ==
    [Repository   |-> StringDeref(fp.TeamID, ""),
     Organization |-> fp.OrganizationName,
     TeamID       |-> StringDeref(fp.Repository, ""),
     Permission   |-> fp.Permission]

CreateParameters(fp) ==
    [Repository   |-> StringDeref(fp.Repository, ""),
     Organization |-> fp.OrganizationName,
     TeamID       |-> StringDeref(fp.TeamID, ""),
     Permission   |-> fp.Permission]

\* The structural key of a request.
KeyOf(p) ==
    [Repository |-> p.Repository, Organization |-> p.Organization,
     TeamID |-> p.TeamID]

Keys == {GetParameters(fp) : fp \in ForProvider}


\* v1.Available()
Available == [type |-> "Ready", reason |-> "Available"]

\* Status.SetConditions: a condition replaces the one of its type.
SetConditions(cs, c) == {x \in cs : x.type # c.type} \cup {c}

-----------------------------------------------------------------------------
(* The remote API client (internal/client/repositorypermission)            *)

\* Get: the grant at the key, NotFound when there is none, or a failure.
Get(key) ==
    IF remote[key] # Absent THEN {"nil", "Other"} ELSE {"NotFound", "Other"}

\* Create: stores the grant with the submitted parameters, or fails.
CreateErrs == {"nil", "Other"}

Stored(p, err) ==
    IF err = "nil" THEN [remote EXCEPT ![KeyOf(p)] = p.Permission] ELSE remote

\* Delete: removes the grant at the key, NotFound when there is none, or a
\* failure.
Delete(key) ==
    IF remote[key] # Absent THEN {"nil", "Other"} ELSE {"NotFound", "Other"}

Removed(key, err) ==
    IF err = "nil" THEN [remote EXCEPT ![key] = Absent] ELSE remote

-----------------------------------------------------------------------------
(* Results *)

\* What a call returns; the fields a method does not have keep their zero
\* value.
Ret(err, exists, upToDate, cl) ==
    [err |-> err, ResourceExists |-> exists, ResourceUpToDate |-> upToDate,
     client |-> cl]

\* The record of a call: the method, its argument, the remote call it made
\* (or "none"), the credential that call went out with (NoClient for none),
\* the collaborator's answer and what the method returned; again tells that
\* the call before it was the same method on the same argument and returned
\* no error.
Call(op, mg, call, via, out, ret) ==
    [op |-> op, mg |-> mg, call |-> call, via |-> via, out |-> out, ret |-> ret,
     again |-> last.op = op /\ last.mg = mg /\ last.ret.err = NoErr]

-----------------------------------------------------------------------------
(* connector.Connect *)

\* Mutant: the type assertion is not checked.
ConnectReturn_NoKindCheck(isPermission, trackErr, cfgErr, cfg) ==
    IF trackErr # "nil"
    THEN Ret(Wrap(trackErr, errTrackPCUsage), FALSE, FALSE, NoClient)
    ELSE IF cfgErr # "nil"
    THEN Ret(Wrap(cfgErr, errNewClient), FALSE, FALSE, NoClient)
    ELSE Ret(NoErr, FALSE, FALSE, cfg)

\* Mutant: the client of the first configuration is kept and returned again.
ConnectReturn_Cached(isPermission, trackErr, cfgErr, cfg) ==
    IF ~isPermission THEN Ret(New(errNotPermission), FALSE, FALSE, NoClient)
    ELSE IF trackErr # "nil"
    THEN Ret(Wrap(trackErr, errTrackPCUsage), FALSE, FALSE, NoClient)
    ELSE IF cfgErr # "nil"
    THEN Ret(Wrap(cfgErr, errNewClient), FALSE, FALSE, NoClient)
    ELSE Ret(NoErr, FALSE, FALSE, 0)

\* Mutant: the configuration is resolved before the usage is tracked.
ConnectReturn_ConfigFirst(isPermission, trackErr, cfgErr, cfg) ==
    IF ~isPermission THEN Ret(New(errNotPermission), FALSE, FALSE, NoClient)
    ELSE IF cfgErr # "nil"
    THEN Ret(Wrap(cfgErr, errNewClient), FALSE, FALSE, NoClient)
    ELSE IF trackErr # "nil"
    THEN Ret(Wrap(trackErr, errTrackPCUsage), FALSE, FALSE, NoClient)
    ELSE Ret(NoErr, FALSE, FALSE, cfg)

ConnectReturn(isPermission, trackErr, cfgErr, cfg) ==
    IF ~isPermission THEN Ret(New(errNotPermission), FALSE, FALSE, NoClient)
    ELSE IF trackErr # "nil"
    THEN Ret(Wrap(trackErr, errTrackPCUsage), FALSE, FALSE, NoClient)
    ELSE IF cfgErr # "nil"
    THEN Ret(Wrap(cfgErr, errNewClient), FALSE, FALSE, NoClient)
    ELSE Ret(NoErr, FALSE, FALSE, cfg)

\* The collaborator Connect calls last: none for a resource of another kind,
\* usage.Track when Track fails, NewConfig otherwise.
ConnectReached(isPermission, trackErr) ==
    IF ~isPermission THEN "none"
    ELSE IF trackErr # "nil" THEN "Track"
    ELSE "NewConfig"

Connect(mg, trackErr, cfgErr) ==
    LET isPermission == mg \in Records
        reached == ConnectReached(isPermission, trackErr)
        out == IF reached = "none" THEN "nil"
               ELSE IF reached = "Track" THEN trackErr
               ELSE cfgErr
    IN  /\ usage' = IF reached = "NewConfig" THEN usage \cup {mg} ELSE usage
        /\ last' = Call("Connect", mg, reached, NoClient, out,
                        ConnectReturn(isPermission, trackErr, cfgErr, cred))
        /\ UNCHANGED <<spec, externalName, conditions, phase, userChanged,
                       remote, cred, edits>>

-----------------------------------------------------------------------------
(* external.Observe *)

\* Mutant: NotFound is wrapped and returned like any other error.
ObserveReturn_NoIgnore(err) ==
    IF err # "nil"
    THEN Ret(Wrap(err, "failed to get team"), FALSE, FALSE, NoClient)
    ELSE Ret(NoErr, TRUE, TRUE, NoClient)

\* Mutant: every error of Get is dropped.
ObserveReturn_IgnoreAll(err) ==
    IF err # "nil" THEN Ret(NoErr, FALSE, FALSE, NoClient)
    ELSE Ret(NoErr, TRUE, TRUE, NoClient)

\* Mutant: a grant that is found is reported as not up to date.
ObserveReturn_Outdated(err) ==
    IF err # "nil"
    THEN Ret(Wrap(Ignore(IsNotFound(err), err), "failed to get team"),
             FALSE, FALSE, NoClient)
    ELSE Ret(NoErr, TRUE, FALSE, NoClient)

ObserveReturn(err) ==
    IF err # "nil"
    THEN Ret(Wrap(Ignore(IsNotFound(err), err), "failed to get team"),
             FALSE, FALSE, NoClient)
    ELSE Ret(NoErr, TRUE, TRUE, NoClient)

\* Mutant: Available is set whatever Get answered.
ObserveConditions_Always(cs, err) == SetConditions(cs, Available)

ObserveConditions(cs, err) ==
    IF err # "nil" THEN cs ELSE SetConditions(cs, Available)

Observe(c, mg) ==
    /\ IF mg \notin Records
       THEN /\ last' = Call("Observe", mg, "none", NoClient, "nil",
                            Ret(New(errNotPermission), FALSE, FALSE, NoClient))
            /\ UNCHANGED conditions
       ELSE \E err \in Get(GetParameters(spec[mg])) :
            /\ conditions' =
                   [conditions EXCEPT ![mg] = ObserveConditions(@, err)]
            /\ last' = Call("Observe", mg, "Get", c, err, ObserveReturn(err))
    /\ UNCHANGED <<spec, externalName, phase, userChanged, remote, usage,
                   cred, edits>>

-----------------------------------------------------------------------------
(* external.Create *)

CreateReturn(err) ==
    IF err # "nil"
    THEN Ret(Wrap(err, "failed to create repository permission"),
             FALSE, FALSE, NoClient)
    ELSE Ret(NoErr, FALSE, FALSE, NoClient)

\* meta.SetExternalName(cr, pointer.StringDeref(cr.Spec.ForProvider.Repository, ""))
\* Mutant: the external name is set whether or not the remote Create failed.
CreateExternalName_Always(old, fp, err) == StringDeref(fp.Repository, "")

\* Mutant: the external name is set to the team.
CreateExternalName_Team(old, fp, err) ==
    IF err # "nil" THEN old ELSE StringDeref(fp.TeamID, "")

CreateExternalName(old, fp, err) ==
    IF err # "nil" THEN old ELSE StringDeref(fp.Repository, "")

Create(c, mg) ==
    /\ IF mg \notin Records
       THEN /\ last' = Call("Create", mg, "none", NoClient, "nil",
                            Ret(New(errNotPermission), FALSE, FALSE, NoClient))
            /\ UNCHANGED <<externalName, userChanged, remote>>
       ELSE \E err \in CreateErrs :
            /\ remote' = Stored(CreateParameters(spec[mg]), err)
            /\ externalName' =
                   [externalName EXCEPT
                       ![mg] = CreateExternalName(@, spec[mg], err)]
            /\ userChanged' =
                   IF err = "nil" THEN [userChanged EXCEPT ![mg] = FALSE]
                   ELSE userChanged
            /\ last' = Call("Create", mg, "Create", c, err, CreateReturn(err))
    /\ UNCHANGED <<spec, conditions, phase, usage, cred, edits>>

-----------------------------------------------------------------------------
(* external.Update *)

UpdateReturn == Ret(NoErr, FALSE, FALSE, NoClient)

\* Mutant: Update marks the record Available.
Update_SetsAvailable(c, mg) ==
    /\ last' = Call("Update", mg, "none", NoClient, "nil", UpdateReturn)
    /\ conditions' =
           [r \in Records |->
               IF r = mg THEN SetConditions(conditions[r], Available)
               ELSE conditions[r]]
    /\ UNCHANGED <<spec, externalName, phase, userChanged, remote, usage,
                   cred, edits>>

Update(c, mg) ==
    /\ last' = Call("Update", mg, "none", NoClient, "nil", UpdateReturn)
    /\ UNCHANGED <<spec, externalName, conditions, phase, userChanged, remote,
                   usage, cred, edits>>

-----------------------------------------------------------------------------
(* external.Delete *)

\* Mutant: NotFound is wrapped and returned like any other error.
DeleteReturn_NoIgnore(err) ==
    Ret(Wrap(err, "cannot delete repositroy permission"),
        FALSE, FALSE, NoClient)

\* Mutant: every error of the remote Delete is dropped.
DeleteReturn_IgnoreAll(err) == Ret(NoErr, FALSE, FALSE, NoClient)

DeleteReturn(err) ==
    Ret(Wrap(Ignore(IsNotFound(err), err), "cannot delete repositroy permission"),
        FALSE, FALSE, NoClient)

DeleteCall(c, mg) ==
    /\ IF mg \notin Records
       THEN /\ last' = Call("Delete", mg, "none", NoClient, "nil",
                            Ret(New(errNotPermission), FALSE, FALSE, NoClient))
            /\ UNCHANGED remote
       ELSE \E err \in Delete(GetParameters(spec[mg])) :
            /\ remote' = Removed(GetParameters(spec[mg]), err)
            /\ last' = Call("Delete", mg, "Delete", c, err, DeleteReturn(err))
    /\ UNCHANGED <<spec, externalName, conditions, phase, userChanged, usage,
                   cred, edits>>

-----------------------------------------------------------------------------
(* The user *)

\* The user changes one field of the spec of a record.
EditSpec(r) ==
    /\ phase[r] = "live"
    /\ pc[r] = "idle"
    /\ edits < MaxEdits
    /\ \E fp \in ForProvider :
        /\ Cardinality({f \in DOMAIN fp : fp[f] # spec[r][f]}) = 1
        /\ spec' = [spec EXCEPT ![r] = fp]
    /\ userChanged' = [userChanged EXCEPT ![r] = TRUE]
    /\ edits' = edits + 1
    /\ UNCHANGED <<externalName, conditions, phase, remote, usage, cred,
                   clients, client, pc, last>>

\* The user deletes a record: it is kept, marked, until it is finalized.
RequestDeletion(r) ==
    /\ phase[r] = "live"
    /\ pc[r] = "idle"
    /\ phase' = [phase EXCEPT ![r] = "deleting"]
    /\ UNCHANGED <<spec, externalName, conditions, userChanged, remote, usage,
                   cred, clients, client, pc, last, edits>>

\* The credential of the ProviderConfig is replaced.
RotateCredential ==
    /\ edits < MaxEdits
    /\ cred' = cred + 1
    /\ edits' = edits + 1
    /\ UNCHANGED <<spec, externalName, conditions, phase, userChanged, remote,
                   usage, clients, client, pc, last>>

-----------------------------------------------------------------------------
(* Any caller: the methods in any order, each on an ExternalClient that an *)
(* earlier Connect returned.                                               *)

CallConnect(mg) ==
    \E trackErr \in {"nil", "Other"}, cfgErr \in {"nil", "Other"} :
        /\ Connect(mg, trackErr, cfgErr)
        /\ clients' = clients \cup ({last'.ret.client} \ {NoClient})
        /\ UNCHANGED <<client, pc>>

CallObserve(mg) ==
    \E c \in clients : Observe(c, mg) /\ UNCHANGED <<clients, client, pc>>

CallCreate(mg) ==
    \E c \in clients : Create(c, mg) /\ UNCHANGED <<clients, client, pc>>

CallUpdate(mg) ==
    /\ clients # {}
    /\ Update(CHOOSE c \in clients : TRUE, mg)
    /\ UNCHANGED <<clients, client, pc>>

CallDelete(mg) ==
    \E c \in clients : DeleteCall(c, mg) /\ UNCHANGED <<clients, client, pc>>

-----------------------------------------------------------------------------
(* Specification *)

\* The records the user has written: r1 and r2 both ask for the grant on
\* repository "infra" to team "sre" (the store does not keep two records
\* from naming the same grant).
InitialSpecs ==
    {[r \in Records |->
        [OrganizationName |-> "acme", Repository |-> "infra",
         TeamID |-> "sre", Permission |-> "admin"]]}

NoCall ==
    [op |-> "none", mg |-> Foreign, call |-> "none", via |-> NoClient,
     out |-> "nil", ret |-> UpdateReturn, again |-> FALSE]

Init ==
    /\ spec \in InitialSpecs
    /\ externalName = [r \in Records |-> Unset]
    /\ conditions = [r \in Records |-> {}]
    /\ phase = [r \in Records |-> "live"]
    /\ userChanged = [r \in Records |-> FALSE]
    /\ remote = [k \in Keys |-> Absent]
    /\ usage = {}
    /\ cred = 0
    /\ clients = {}
    /\ client = [r \in Records |-> NoClient]
    /\ pc = [r \in Records |-> "idle"]
    /\ last = NoCall
    /\ edits = 0

Next ==
    \/ \E mg \in Managed : CallConnect(mg)
    \/ \E mg \in Managed : CallObserve(mg)
    \/ \E mg \in Managed : CallCreate(mg)
    \/ \E mg \in Managed : CallUpdate(mg)
    \/ \E mg \in Managed : CallDelete(mg)
    \/ \E r \in Records : EditSpec(r)

Spec == Init /\ [][Next]_vars

-----------------------------------------------------------------------------
(* The managed reconciler that Setup registers.  One cycle for a record:   *)
(* Connect, Observe, then Delete (deletion requested, the grant exists),   *)
(* the end of finalization (deletion requested, no grant), Create (no      *)
(* grant), Update (grant not up to date) or nothing.  An error ends the    *)
(* cycle; the record is requeued.  The ExternalClient of a cycle is        *)
(* dropped at its end.  Cycles of different records interleave.            *)

\* The cycle of r is over.
Requeue(r) ==
    /\ pc' = [pc EXCEPT ![r] = "idle"]
    /\ client' = [client EXCEPT ![r] = NoClient]

EngineConnect(mg) ==
    /\ mg \in Records => phase[mg] # "purged" /\ pc[mg] = "idle"
    /\ \E trackErr \in {"nil", "Other"}, cfgErr \in {"nil", "Other"} :
        Connect(mg, trackErr, cfgErr)
    /\ IF last'.ret.err = NoErr
       THEN /\ pc' = [pc EXCEPT ![mg] = "connected"]
            /\ client' = [client EXCEPT ![mg] = last'.ret.client]
       ELSE UNCHANGED <<pc, client>>
    /\ UNCHANGED clients

EngineObserve(r) ==
    /\ pc[r] = "connected"
    /\ Observe(client[r], r)
    /\ IF last'.ret.err # NoErr THEN Requeue(r)
       ELSE /\ pc' = [pc EXCEPT ![r] =
                        IF ~last'.ret.ResourceExists THEN "absent"
                        ELSE IF last'.ret.ResourceUpToDate THEN "uptodate"
                        ELSE "outdated"]
            /\ UNCHANGED client
    /\ UNCHANGED clients

EngineDelete(r) ==
    /\ phase[r] = "deleting"
    /\ pc[r] \in {"uptodate", "outdated"}
    /\ DeleteCall(client[r], r)
    /\ Requeue(r)
    /\ UNCHANGED clients

\* Finalization ends: the record is removed from the store.
EnginePurge(r) ==
    /\ phase[r] = "deleting"
    /\ pc[r] = "absent"
    /\ phase' = [phase EXCEPT ![r] = "purged"]
    /\ Requeue(r)
    /\ UNCHANGED <<spec, externalName, conditions, userChanged, remote, usage,
                   cred, clients, last, edits>>

EngineCreate(r) ==
    /\ phase[r] = "live"
    /\ pc[r] = "absent"
    /\ Create(client[r], r)
    /\ Requeue(r)
    /\ UNCHANGED clients

\* The grant exists: Update when it is not up to date, nothing otherwise.
EngineUpdate(r) ==
    /\ phase[r] = "live"
    /\ pc[r] \in {"uptodate", "outdated"}
    /\ IF pc[r] = "outdated" THEN Update(client[r], r)
       ELSE UNCHANGED <<spec, externalName, conditions, phase, userChanged,
                        remote, usage, cred, last, edits>>
    /\ Requeue(r)
    /\ UNCHANGED clients

EngineNext ==
    \/ \E mg \in Managed : EngineConnect(mg)
    \/ \E r \in Records : EngineObserve(r)
    \/ \E r \in Records : EngineDelete(r)
    \/ \E r \in Records : EnginePurge(r)
    \/ \E r \in Records : EngineCreate(r)
    \/ \E r \in Records : EngineUpdate(r)
    \/ \E r \in Records : EditSpec(r)
    \/ \E r \in Records : RequestDeletion(r)
    \/ RotateCredential

EngineSpec == Init /\ [][EngineNext]_vars

\* The reconciler keeps running cycles: every step of a cycle that stays
\* possible is taken, and a call that is made again and again succeeds in the
\* end (the usage tracking and the configuration resolution of Connect, Get
\* answering with the grant or NotFound, Create and Delete without error).
ConnectOK(r) == EngineConnect(r) /\ last'.ret.err = NoErr

ObserveOK(r) == EngineObserve(r) /\ last'.ret.err = NoErr

CreateOK(r) == EngineCreate(r) /\ last'.ret.err = NoErr

DeleteOK(r) == EngineDelete(r) /\ last'.ret.err = NoErr

EngineFairness ==
    \A r \in Records :
        /\ SF_vars(ConnectOK(r))
        /\ SF_vars(ObserveOK(r))
        /\ SF_vars(CreateOK(r))
        /\ SF_vars(DeleteOK(r))
        /\ WF_vars(EngineUpdate(r))
        /\ WF_vars(EnginePurge(r))

FairEngineSpec == Init /\ [][EngineNext]_vars /\ EngineFairness

-----------------------------------------------------------------------------
(* Steps: a step of either specification that is a call of a method *)

Creds == 0..MaxEdits

\* (the cheap test on last comes first: most steps fail it)
Called(op, mg) == last'.op = op /\ last'.mg = mg

ConnectStep(mg) ==
    /\ Called("Connect", mg)
    /\ \E trackErr \in {"nil", "Other"}, cfgErr \in {"nil", "Other"} :
        Connect(mg, trackErr, cfgErr)

ObserveStep(mg) == Called("Observe", mg) /\ \E c \in Creds : Observe(c, mg)

CreateStep(mg) == Called("Create", mg) /\ \E c \in Creds : Create(c, mg)

UpdateStep(mg) == Called("Update", mg) /\ \E c \in Creds : Update(c, mg)

DeleteStep(mg) == Called("Delete", mg) /\ \E c \in Creds : DeleteCall(c, mg)

\* The structural key of a record, and whether its grant exists remotely.
KeyOfRecord(r) == GetParameters(spec[r])

Exists(r) == remote[KeyOfRecord(r)] # Absent

EmptyResult == Ret(NoErr, FALSE, FALSE, NoClient)

-----------------------------------------------------------------------------
(* Properties *)

\* C1: an Observe of a record whose structural key is not present remotely,
\* whatever its external name, gets NotFound from Get (or a failure of
\* another kind), and on NotFound returns the empty observation,
\* ResourceExists false, and no error.
C1_ObserveAbsent ==
    [][\A r \in Records :
        ObserveStep(r) /\ ~Exists(r) =>
            /\ last'.out \in {"NotFound", "Other"}
            /\ last'.out = "NotFound" => last'.ret = EmptyResult]_vars

C1_Witness ==
    /\ last.op = "Observe"
    /\ last.mg \in Records
    /\ last.out = "NotFound"
    /\ externalName[last.mg] = Unset
    /\ ~Exists(last.mg)
    /\ last.ret.err = NoErr
    /\ ~last.ret.ResourceExists

\* C2: when Get fails with an error other than NotFound, Observe returns that
\* error, wrapped, and the cycle of the reconciler ends there: the record is
\* requeued with no conclusion drawn, so neither Create nor Delete follows.
C2_ObservePropagates ==
    [][\A r \in Records :
        ObserveStep(r) /\ last'.out = "Other" =>
            /\ last'.ret.err # NoErr
            /\ last'.ret.err.cause = "Other"
            /\ pc'[r] = "idle"]_vars

C2_Witness ==
    /\ last.op = "Observe"
    /\ last.mg \in Records
    /\ last.out = "Other"
    /\ last.ret.err # NoErr
    /\ pc[last.mg] = "idle"

\* C3: an Observe of a record that directly follows a successful Create of
\* it, with the spec not edited in between, never gets NotFound, and when Get
\* succeeds it returns ResourceExists and ResourceUpToDate; no Observe
\* returns ResourceExists without ResourceUpToDate.
C3_ObserveAfterCreate ==
    [][\A r \in Records :
        ObserveStep(r) =>
            /\ last'.ret.ResourceExists => last'.ret.ResourceUpToDate
            /\ ( /\ last.op = "Create" /\ last.mg = r
                 /\ last.ret.err = NoErr
                 /\ ~userChanged[r] ) =>
                    /\ last'.out # "NotFound"
                    /\ last'.out = "nil" =>
                        /\ last'.ret.err = NoErr
                        /\ last'.ret.ResourceExists
                        /\ last'.ret.ResourceUpToDate]_vars

\* The state after that Observe: the grant the Create stored is found.
C3_Witness ==
    /\ last.op = "Observe"
    /\ last.mg \in Records
    /\ last.out = "nil"
    /\ last.ret.ResourceExists
    /\ last.ret.ResourceUpToDate
    /\ externalName[last.mg] # Unset
    /\ ~userChanged[last.mg]

\* C4: a Delete whose remote call succeeds or answers NotFound returns no
\* error and leaves no grant at the key; a Delete of a record whose grant is
\* already absent leaves the remote store as it was, the first time and every
\* time after.
C4_DeleteIdempotent ==
    [][\A r \in Records :
        DeleteStep(r) =>
            /\ last'.out \in {"nil", "NotFound"} =>
                /\ last'.ret.err = NoErr
                /\ remote'[KeyOfRecord(r)] = Absent
            /\ ~Exists(r) =>
                /\ remote' = remote
                /\ last'.out \in {"NotFound", "Other"}]_vars

\* The state after a Delete of a record whose grant was already absent.
C4_Witness ==
    /\ last.op = "Delete"
    /\ last.mg \in Records
    /\ last.out = "NotFound"
    /\ last.ret.err = NoErr
    /\ ~Exists(last.mg)

\* C5: when the remote Delete fails with an error other than NotFound,
\* Delete returns that error, wrapped, and removes nothing; the reconciler
\* then ends the cycle with the record still marked for deletion and not
\* purged, so that a new cycle, which calls Delete again once Observe finds
\* the grant, can start; a record is purged only in a cycle whose Observe
\* found no grant, and a cycle of a record marked for deletion whose Observe
\* found the grant goes on with Delete and nothing else.
C5_DeleteFailureBlocks ==
    [][\A r \in Records :
        /\ DeleteStep(r) /\ last'.out = "Other" =>
            /\ last'.ret.err # NoErr
            /\ last'.ret.err.cause = "Other"
            /\ remote' = remote
            /\ phase'[r] = "deleting"
            /\ pc'[r] = "idle"
        /\ phase[r] # "purged" /\ phase'[r] = "purged" => pc[r] = "absent"
        /\ ( /\ phase[r] = "deleting"
             /\ pc[r] \in {"uptodate", "outdated"}
             /\ pc'[r] # pc[r] ) => DeleteStep(r)]_vars

C5_Witness ==
    /\ last.op = "Delete"
    /\ last.mg \in Records
    /\ last.out = "Other"
    /\ last.ret.err # NoErr
    /\ phase[last.mg] = "deleting"
    /\ pc[last.mg] = "idle"
    /\ Exists(last.mg)

\* C6: Update, on any managed resource in any state, returns the empty result
\* and no error, makes no call to the remote API, and leaves the specs, the
\* external names, the conditions, the deletion marks, the usage records and
\* the remote store as they were.
C6_UpdateNoOp ==
    [][\A mg \in Managed :
        UpdateStep(mg) =>
            /\ last'.ret = EmptyResult
            /\ last'.call = "none"
            /\ UNCHANGED <<spec, externalName, conditions, phase, remote,
                           usage>>]_vars

\* The state after an Update of a record that is bound and whose grant exists.
C6_Witness ==
    /\ last.op = "Update"
    /\ last.mg \in Records
    /\ last.ret = EmptyResult
    /\ externalName[last.mg] # Unset
    /\ Exists(last.mg)

\* C7: a Create whose remote call succeeds returns the empty result and sets
\* the external name of the record to the repository of its spec ("" when the
\* spec names none); a Create whose remote call fails returns an error and
\* leaves the external name and the remote store as they were, so that an
\* Observe that follows it and gets NotFound reports the grant absent again.
C7_CreateBindsOnSuccess ==
    [][\A r \in Records :
        /\ CreateStep(r) =>
            /\ last'.out = "nil" =>
                /\ last'.ret = EmptyResult
                /\ externalName'[r] = StringDeref(spec[r].Repository, "")
            /\ last'.out # "nil" =>
                /\ last'.ret.err # NoErr
                /\ externalName'[r] = externalName[r]
                /\ remote' = remote
        /\ ( /\ ObserveStep(r)
             /\ last.op = "Create" /\ last.mg = r /\ last.ret.err # NoErr
             /\ last'.out = "NotFound" ) => last'.ret = EmptyResult]_vars

\* The state after a failed Create of a record that was not bound.
C7_Witness ==
    /\ last.op = "Create"
    /\ last.mg \in Records
    /\ last.out = "Other"
    /\ last.ret.err # NoErr
    /\ externalName[last.mg] = Unset
    /\ ~Exists(last.mg)

\* C8: Connect on a managed resource that is not a Permission returns the
\* error errNotPermission and no client, without calling usage.Track or
\* NewConfig: no usage is recorded and no client comes into being.
C8_ConnectWrongKind ==
    [][ConnectStep(Foreign) =>
        /\ last'.ret = Ret(New(errNotPermission), FALSE, FALSE, NoClient)
        /\ last'.call = "none"
        /\ UNCHANGED <<usage, clients, client>>]_vars

C8_Witness ==
    /\ last.op = "Connect"
    /\ last.mg = Foreign
    /\ last.ret.err = New(errNotPermission)
    /\ last.ret.client = NoClient
    /\ Foreign \notin usage

\* C9 as stated: the external name, once set, identifies the grant of its
\* record uniquely, so two records that are bound, their specs untouched
\* since, and carry the same external name have the same grant.
C9_UniquelyIdentifies ==
    \A r1, r2 \in Records :
        ( /\ externalName[r1] # Unset /\ ~userChanged[r1]
          /\ externalName[r2] # Unset /\ ~userChanged[r2]
          /\ externalName[r1] = externalName[r2] ) =>
            KeyOfRecord(r1) = KeyOfRecord(r2)

\* C9, amended: the external name of a record, once set, is the repository
\* of the spec the record had when it was set, so that only with the
\* organization and the team of the spec it names the grant created for the
\* record; as long as the user does not edit the spec, no call of Observe,
\* Create, Update or Delete changes it.
C9_Bound(r) ==
    externalName[r] # Unset /\ ~userChanged[r] =>
        externalName[r] = StringDeref(spec[r].Repository, "")

C9_IdentityStable ==
    /\ [](\A r \in Records : C9_Bound(r))
    /\ [][\A r \in Records :
            externalName[r] # Unset /\ externalName'[r] # externalName[r] =>
                userChanged[r]]_vars

\* A bound record, its spec untouched, after a call of Observe, Update or
\* Delete on it.
C9_Witness ==
    /\ last.op \in {"Observe", "Update", "Delete"}
    /\ last.mg \in Records
    /\ externalName[last.mg] = "infra"
    /\ ~userChanged[last.mg]

\* C10: every grant of the remote store is the grant of at most one record
\* that has an external name: no two such records have its structural key.
C10_Bound(k) ==
    {r \in Records :
        /\ phase[r] # "purged"
        /\ externalName[r] # Unset
        /\ KeyOfRecord(r) = k}

C10_OneRecordPerGrant ==
    \A k \in Keys : remote[k] # Absent => Cardinality(C10_Bound(k)) <= 1

\* A record whose grant exists with a permission other than its spec's.
Drifted(r) == Exists(r) /\ remote[KeyOfRecord(r)] # spec[r].Permission

\* C11: an Observe of a record whose grant exists with a permission other
\* than the one of its spec never gets NotFound and, when Get succeeds,
\* returns ResourceExists and ResourceUpToDate and leaves the grant as it is;
\* no Observe is ever followed by the reconciler taking the grant for out of
\* date, and a cycle of a live record whose Observe found the grant ends
\* without a call of Update, Create or Delete.
C11_ExistenceOnlyDrift ==
    [][\A r \in Records :
        /\ ObserveStep(r) /\ Drifted(r) =>
            /\ last'.out # "NotFound"
            /\ last'.out = "nil" => last'.ret = Ret(NoErr, TRUE, TRUE, NoClient)
            /\ remote' = remote
        /\ pc'[r] # "outdated"
        /\ ( /\ phase[r] = "live"
             /\ pc[r] \in {"uptodate", "outdated"}
             /\ pc'[r] # pc[r] ) =>
                UNCHANGED <<remote, last, externalName, spec>>]_vars

\* The state after an Observe of a bound record whose permission the user
\* changed after its Create: the grant still has the old permission and is
\* reported up to date.
C11_Witness ==
    /\ last.op = "Observe"
    /\ last.mg \in Records
    /\ last.ret = Ret(NoErr, TRUE, TRUE, NoClient)
    /\ externalName[last.mg] # Unset
    /\ userChanged[last.mg]
    /\ spec[last.mg].Permission = "read"
    /\ remote[KeyOfRecord(last.mg)] = "admin"
    /\ pc[last.mg] = "uptodate"

\* C12: a live record whose grant is absent is led, by the cycles of the
\* reconciler and once the calls succeed, to a state where its grant exists,
\* its external name is the repository of its spec (Observe reported the
\* grant absent and Create was called) and Observe has set Available; the
\* only way out is the user marking the record for deletion.
C12_Converges ==
    \A r \in Records :
        (phase[r] = "live" /\ ~Exists(r)) ~>
            \/ phase[r] # "live"
            \/ /\ Exists(r)
               /\ externalName[r] = StringDeref(spec[r].Repository, "")
               /\ Available \in conditions[r]

\* C13: the step that purges a record marked for deletion is taken only
\* when no grant exists at the record's structural key, and only in a cycle
\* whose Observe found no grant (which is also what follows a Delete that
\* returned no error).
C13_FinalizationSafety ==
    [][\A r \in Records :
        phase[r] # "purged" /\ phase'[r] = "purged" =>
            /\ phase[r] = "deleting"
            /\ pc[r] = "absent"
            /\ ~Exists(r)]_vars

C15_ConnectOrder ==
    [][\A r \in Records :
        ConnectStep(r) =>
            /\ last'.call \in {"Track", "NewConfig"}
            /\ usage \subseteq usage'
            /\ last'.call = "Track" =>
                /\ last'.out # "nil"
                /\ last'.ret = Ret(Wrap(last'.out, errTrackPCUsage),
                                   FALSE, FALSE, NoClient)
                /\ UNCHANGED <<usage, clients>>
            /\ last'.call = "NewConfig" =>
                /\ r \in usage'
                /\ last'.out # "nil" =>
                    /\ last'.ret = Ret(Wrap(last'.out, errNewClient),
                                       FALSE, FALSE, NoClient)
                    /\ UNCHANGED clients
                /\ last'.out = "nil" =>
                    /\ last'.ret = Ret(NoErr, FALSE, FALSE, cred)
                    /\ clients' = clients \cup {cred}]_vars

\* The state after a Connect whose NewConfig failed, no Connect having ever
\* succeeded: no client exists, and the usage of the record is recorded.
C15_Witness ==
    /\ last.op = "Connect"
    /\ last.mg \in Records
    /\ last.call = "NewConfig"
    /\ last.out = "Other"
    /\ last.ret = Ret(Wrap("Other", errNewClient), FALSE, FALSE, NoClient)
    /\ clients = {}
    /\ usage = {last.mg}

\* C16: a Connect that succeeds returns a client made from the credential
\* current at that call, which the reconciler uses for the calls of that
\* cycle and of no other: Get, Create and Delete go out with the client of
\* the cycle's Connect, the client stays the same within the cycle, and a
\* record between two cycles holds no client. So every call of a cycle
\* begun after a rotation goes out with the new credential.
C16_NoCaching ==
    [][\A r \in Records :
        /\ ConnectStep(r) /\ last'.ret.err = NoErr =>
            /\ last'.call = "NewConfig"
            /\ last'.ret.client = cred
            /\ client'[r] = cred
        /\ pc'[r] = "idle" => client'[r] = NoClient
        /\ pc[r] # "idle" /\ pc'[r] # "idle" => client'[r] = client[r]
        /\ ( /\ pc'[r] # pc[r]
             /\ ObserveStep(r) \/ CreateStep(r) \/ DeleteStep(r) ) =>
                /\ client[r] # NoClient
                /\ last'.via = client[r]]_vars

\* The state after the Observe of a cycle begun after a rotation, another
\* record still being in a cycle begun before it: Get went out with the new
\* credential.
C16_Witness ==
    /\ last.op = "Observe"
    /\ last.mg \in Records
    /\ cred > 0
    /\ last.via = cred
    /\ client[last.mg] = cred
    /\ \E r \in Records : client[r] # NoClient /\ client[r] < cred

\* C17: Observe sets the condition Available on its record when Get
\* succeeds and only then: when Get answers NotFound or fails otherwise the
\* conditions stay as they were. In every case the conditions of the other
\* records, every external name, every spec and every grant stay as they
\* were.
C17_ObserveFrame ==
    [][\A r \in Records :
        ObserveStep(r) =>
            /\ last'.out = "nil" =>
                /\ Available \in conditions'[r]
                /\ conditions'[r] = SetConditions(conditions[r], Available)
            /\ last'.out # "nil" => conditions'[r] = conditions[r]
            /\ \A q \in Records \ {r} : conditions'[q] = conditions[q]
            /\ UNCHANGED <<externalName, spec, remote>>]_vars

\* The state after an Observe whose Get answered NotFound, on a record that
\* an earlier Observe had found: the condition Available is still there, and
\* the other record, never found, has none.
C17_Witness ==
    /\ last.op = "Observe"
    /\ last.mg \in Records
    /\ last.out = "NotFound"
    /\ ~Exists(last.mg)
    /\ Available \in conditions[last.mg]
    /\ \E q \in Records : conditions[q] = {}

\* C18: once a record is purged, no grant that a Create for it stored is
\* left. A grant is stored by a successful Create only, and a successful
\* Create sets the external name of its record for good, so while every
\* other record has no external name, each grant there is was stored by a
\* Create for the purged record: there must be none.
C18_NoOrphan ==
    \A r \in Records :
        ( /\ phase[r] = "purged"
          /\ \A q \in Records \ {r} : externalName[q] = Unset ) =>
            \A k \in Keys : remote[k] = Absent

====
